---- MODULE Spec2Model ----
(***************************************************************************)
(* Health Reminder API (backend/server.py): the session and settings       *)
(* handlers over the two MongoDB collections health_sessions and           *)
(* user_settings.  Every store call (insert_one, find, find_one,           *)
(* update_one) is one atomic step; a handler that awaits two store calls   *)
(* is two steps of one request slot, so that requests interleave the way   *)
(* coroutines of the event loop do.                                        *)
(***************************************************************************)
EXTENDS Integers, Sequences, FiniteSets, TLC

VARIABLES
    health_sessions,  \* db.health_sessions, documents in natural (insertion) order
    user_settings,    \* db.user_settings, documents in natural (insertion) order
    clock,            \* the instant datetime.utcnow() returns
    today,            \* the day date.today() returns (ordinal, see date_ymd)
    uuid,             \* the next value uuid.uuid4() returns (fresh, never reused)
    pc,               \* per request slot: the await the handler is suspended at
    frame,            \* per request slot: the handler's local variables
    resp,             \* the last HTTP exchange: handler, status, request, body
    solo,             \* history: the running request has overlapped no other one
    last              \* history: the last settings write answered, none started since

vars == <<health_sessions, user_settings, clock, today, uuid, pc, frame, resp,
          solo, last>>

\* The request slots (requests in flight at one time).
Slots == {"r1", "r2"}

(***************************************************************************)
(* Bounds of the exploration.                                              *)
(***************************************************************************)
MaxSessions == 1       \* sessions created per run, beyond the initial store
MaxClock == 1          \* the clock ticks from 0 to MaxClock
DailyPreload == 100    \* initial store of the daily runs: this many sessions
WeeklyPreload == 1000  \* initial store of the weekly runs

\* The days the service is used on: day 1 is seven days before day 8, day 0
\* eight days before it.
Days == {0, 1, 8}

\* Request bodies POST /sessions is called with.
SittingValues == {0, 50}
ActivityValues == {10}
CreateInputs ==
    [sitting_duration : SittingValues, activity_duration : ActivityValues,
     completed : BOOLEAN]

(***************************************************************************)
(* Dates and timestamps.  A date is its ordinal, day 0 being 2025-12-28;   *)
(* date.isoformat() is the ten characters YYYY-MM-DD, a character being    *)
(* its code relative to "0" (so "-" is -3) and strings comparing as        *)
(* MongoDB compares them, character by character.                          *)
(***************************************************************************)
date_ymd(d) ==
    IF d <= 3 THEN <<2025, 12, 28 + d>>
    ELSE IF d <= 34 THEN <<2026, 1, d - 3>>
    ELSE <<2026, 2, d - 34>>

isoformat(d) ==
    LET y == date_ymd(d)[1]
        m == date_ymd(d)[2]
        dd == date_ymd(d)[3]
    IN  <<y \div 1000, (y \div 100) % 10, (y \div 10) % 10, y % 10, -3,
          m \div 10, m % 10, -3, dd \div 10, dd % 10>>

\* pydantic's parse of a stored session_date string back into a date.
parse_date(s) ==
    LET y == s[1] * 1000 + s[2] * 100 + s[3] * 10 + s[4]
        m == s[6] * 10 + s[7]
        dd == s[9] * 10 + s[10]
    IN  IF y = 2025 THEN dd - 28 ELSE IF m = 1 THEN dd + 3 ELSE dd + 34

\* String order of MongoDB's $lt on two strings.
StrLT(a, b) ==
    \/ \E i \in 1..Len(a) :
          /\ i <= Len(b)
          /\ a[i] < b[i]
          /\ \A j \in 1..(i - 1) : a[j] = b[j]
    \/ Len(a) < Len(b) /\ \A j \in 1..Len(a) : a[j] = b[j]

StrLE(a, b) == a = b \/ StrLT(a, b)

\* A datetime as the store holds it: a BSON date (insert of a datetime object)
\* or a string (insert of datetime.isoformat()).  The two never compare equal.
BsonDate(t) == [kind |-> "date", t |-> t]
IsoString(t) == [kind |-> "str", t |-> t]

\* pydantic's parse of a stored timestamp back into a datetime.
parse_datetime(ts) == ts.t

(***************************************************************************)
(* Models (pydantic classes).                                              *)
(***************************************************************************)
\* HealthSession as it would be if the request's completed flag were dropped.
HealthSession_completed_dropped(session_dict, id, now) ==
    [id |-> id,
     user_id |-> "default_user",
     session_date |-> session_dict.session_date,
     sitting_duration |-> session_dict.sitting_duration,
     activity_duration |-> session_dict.activity_duration,
     completed |-> FALSE,
     timestamp |-> now]

\* HealthSession(**session_dict): id and timestamp from the default factories.
HealthSession(session_dict, id, now) ==
    [id |-> id,
     user_id |-> "default_user",
     session_date |-> session_dict.session_date,
     sitting_duration |-> session_dict.sitting_duration,
     activity_duration |-> session_dict.activity_duration,
     completed |-> session_dict.completed,
     timestamp |-> now]

\* HealthSession(**session) of a stored document.
HealthSessionFromDoc(doc) ==
    [id |-> doc.id,
     user_id |-> doc.user_id,
     session_date |-> parse_date(doc.session_date),
     sitting_duration |-> doc.sitting_duration,
     activity_duration |-> doc.activity_duration,
     completed |-> doc.completed,
     timestamp |-> parse_datetime(doc.timestamp)]

(***************************************************************************)
(* Store calls on health_sessions.                                         *)
(***************************************************************************)
Min(a, b) == IF a <= b THEN a ELSE b

\* cursor.to_list(length): at most length documents, in natural order.
to_list(docs, length) == SubSeq(docs, 1, Min(Len(docs), length))

\* The find of the daily handlers as it would be with an empty filter.
find_without_filter(coll, iso, length) == to_list(coll, length)

\* find({"session_date": iso}).to_list(length)
find_by_session_date(coll, iso, length) ==
    to_list(SelectSeq(coll, LAMBDA s : s.session_date = iso), length)

\* The find of the weekly handler as it would be with "$gt" for "$gte".
find_after_week_ago(coll, lo, hi, length) ==
    to_list(SelectSeq(coll, LAMBDA s : StrLT(lo, s.session_date)
                                       /\ StrLE(s.session_date, hi)), length)

\* find({"session_date": {"$gte": lo, "$lte": hi}}).to_list(length)
find_by_date_range(coll, lo, hi, length) ==
    to_list(SelectSeq(coll, LAMBDA s : StrLE(lo, s.session_date)
                                       /\ StrLE(s.session_date, hi)), length)

\* The position of the first document with this id, 0 when there is none.
first_by_id(coll, id) ==
    LET hits == {i \in 1..Len(coll) : coll[i].id = id}
    IN  IF hits = {} THEN 0 ELSE CHOOSE i \in hits : \A j \in hits : i <= j

\* The $set of complete_session as it would be if it flipped the flag.
set_completed_flipped(doc, now) ==
    [doc EXCEPT !.completed = ~@, !.timestamp = IsoString(now)]

\* The $set of complete_session applied to a document.
set_completed(doc, now) ==
    [doc EXCEPT !.completed = TRUE, !.timestamp = IsoString(now)]

\* The update of complete_session as it would be with update_many on the
\* user's sessions once the id is found.
update_many_of_user(coll, id, now) ==
    LET i == first_by_id(coll, id)
    IN  IF i = 0
        THEN [coll |-> coll, matched_count |-> 0, modified_count |-> 0]
        ELSE [coll |-> [j \in 1..Len(coll) |-> set_completed(coll[j], now)],
              matched_count |-> Len(coll),
              modified_count |->
                  Cardinality({j \in 1..Len(coll) :
                                  set_completed(coll[j], now) # coll[j]})]

\* update_one as it would be if an id that matches nothing fell back to the
\* first document of the collection.
update_one_first_document(coll, id, now) ==
    LET hit == first_by_id(coll, id)
        i == IF hit = 0 /\ Len(coll) > 0 THEN 1 ELSE hit
    IN  IF i = 0
        THEN [coll |-> coll, matched_count |-> 0, modified_count |-> 0]
        ELSE [coll |-> [coll EXCEPT ![i] = set_completed(coll[i], now)],
              matched_count |-> 1,
              modified_count |-> IF set_completed(coll[i], now) = coll[i]
                                 THEN 0 ELSE 1]

\* update_one({"id": id}, {"$set": {...}}): the first match is rewritten;
\* modified_count counts it only when the rewrite changed the document.
update_one_by_id(coll, id, now) ==
    LET i == first_by_id(coll, id)
    IN  IF i = 0
        THEN [coll |-> coll, matched_count |-> 0, modified_count |-> 0]
        ELSE [coll |-> [coll EXCEPT ![i] = set_completed(coll[i], now)],
              matched_count |-> 1,
              modified_count |-> IF set_completed(coll[i], now) = coll[i]
                                 THEN 0 ELSE 1]

(***************************************************************************)
(* Loops over a list of documents.  The recursion halves the list so that  *)
(* its depth stays logarithmic; the elements are still visited left to     *)
(* right, one call of the loop body each.                                  *)
(***************************************************************************)
RECURSIVE SumField(_, _, _, _)
\* sum(s.get(field, 0) for s in sessions[lo..hi])
SumField(sessions, field, lo, hi) ==
    IF lo > hi THEN 0
    ELSE IF lo = hi THEN sessions[lo][field]
    ELSE LET mid == (lo + hi) \div 2
         IN  SumField(sessions, field, lo, mid)
             + SumField(sessions, field, mid + 1, hi)

bucket_index(daily_stats, session_date) ==
    LET hits == {k \in 1..Len(daily_stats) : daily_stats[k].date = session_date}
    IN  IF hits = {} THEN 0 ELSE CHOOSE k \in hits : TRUE

\* The grouping pass as it would be without the "not in daily_stats" test:
\* every session opens a bucket of its own.
group_session_always_new(daily_stats, session) ==
    Append(daily_stats,
           [date |-> session.session_date,
            total_sessions |-> 1,
            completed_sessions |-> IF session.completed THEN 1 ELSE 0,
            total_sitting_time |-> session.sitting_duration,
            total_activity_time |-> session.activity_duration])

\* One pass of the grouping loop of get_weekly_progress: daily_stats is the
\* dict in insertion order.
group_session(daily_stats, session) ==
    LET k == bucket_index(daily_stats, session.session_date)
        stats == IF k = 0
                 THEN Append(daily_stats,
                             [date |-> session.session_date,
                              total_sessions |-> 0,
                              completed_sessions |-> 0,
                              total_sitting_time |-> 0,
                              total_activity_time |-> 0])
                 ELSE daily_stats
        n == IF k = 0 THEN Len(stats) ELSE k
        b == stats[n]
    IN  [stats EXCEPT ![n] =
            [date |-> b.date,
             total_sessions |-> b.total_sessions + 1,
             completed_sessions |->
                 b.completed_sessions + (IF session.completed THEN 1 ELSE 0),
             total_sitting_time |->
                 b.total_sitting_time + session.sitting_duration,
             total_activity_time |->
                 b.total_activity_time + session.activity_duration]]

RECURSIVE group_sessions(_, _, _, _)
\* for session in sessions[lo..hi]: ...
group_sessions(daily_stats, sessions, lo, hi) ==
    IF lo > hi THEN daily_stats
    ELSE IF lo = hi THEN group_session(daily_stats, sessions[lo])
    ELSE LET mid == (lo + hi) \div 2
             left == group_sessions(daily_stats, sessions, lo, mid)
         IN  IF Len(left) >= 0
             THEN group_sessions(left, sessions, mid + 1, hi)
             ELSE left

(***************************************************************************)
(* Settings models and store calls on user_settings.  An Optional[...]     *)
(* field of UserSettingsUpdate is <<>> for None and <<v>> for the value v. *)
(***************************************************************************)
SettingsFields ==
    {"sitting_reminder_minutes", "activity_break_minutes",
     "notifications_enabled", "sound_alerts_enabled", "daily_goal_sessions"}

\* The field defaults of class UserSettings.
UserSettingsDefaults ==
    [sitting_reminder_minutes |-> 50,
     activity_break_minutes |-> 10,
     notifications_enabled |-> TRUE,
     sound_alerts_enabled |-> TRUE,
     daily_goal_sessions |-> 8]

\* UserSettings(**kwargs): id from the default factory, and the timestamp too
\* unless kwargs gives one.
UserSettings(kwargs, id, now) ==
    [id |-> id,
     user_id |-> "default_user",
     sitting_reminder_minutes |->
         IF "sitting_reminder_minutes" \in DOMAIN kwargs
         THEN kwargs.sitting_reminder_minutes
         ELSE UserSettingsDefaults.sitting_reminder_minutes,
     activity_break_minutes |->
         IF "activity_break_minutes" \in DOMAIN kwargs
         THEN kwargs.activity_break_minutes
         ELSE UserSettingsDefaults.activity_break_minutes,
     notifications_enabled |->
         IF "notifications_enabled" \in DOMAIN kwargs
         THEN kwargs.notifications_enabled
         ELSE UserSettingsDefaults.notifications_enabled,
     sound_alerts_enabled |->
         IF "sound_alerts_enabled" \in DOMAIN kwargs
         THEN kwargs.sound_alerts_enabled
         ELSE UserSettingsDefaults.sound_alerts_enabled,
     daily_goal_sessions |->
         IF "daily_goal_sessions" \in DOMAIN kwargs
         THEN kwargs.daily_goal_sessions
         ELSE UserSettingsDefaults.daily_goal_sessions,
     timestamp |->
         IF "timestamp" \in DOMAIN kwargs
         THEN parse_datetime(kwargs.timestamp)
         ELSE now]

\* UserSettings(**settings) of a stored document.
UserSettingsFromDoc(doc) == [doc EXCEPT !.timestamp = parse_datetime(@)]

\* settings_data: the model's dict with the timestamp as an ISO string.
settings_document(settings) == [settings EXCEPT !.timestamp = IsoString(@)]

\* update_data as it would be with a truthiness test ("if v") in place of
\* "if v is not None": 0 and False are dropped like None.
make_update_data_truthy(settings_update, now) ==
    LET falsy(f) == IF f \in {"notifications_enabled", "sound_alerts_enabled"}
                    THEN settings_update[f] = <<FALSE>>
                    ELSE settings_update[f] = <<0>>
    IN  [k \in {f \in SettingsFields : settings_update[f] # <<>> /\ ~falsy(f)}
                \cup {"timestamp"} |->
            IF k = "timestamp" THEN IsoString(now) ELSE settings_update[k][1]]

\* update_data as it would be without the line that sets the timestamp.
make_update_data_no_timestamp(settings_update, now) ==
    [k \in {f \in SettingsFields : settings_update[f] # <<>>} |->
        settings_update[k][1]]

\* update_data of update_user_settings: the fields that are not None, and
\* the timestamp.
make_update_data(settings_update, now) ==
    [k \in {f \in SettingsFields : settings_update[f] # <<>>} \cup {"timestamp"} |->
        IF k = "timestamp" THEN IsoString(now) ELSE settings_update[k][1]]

\* The update as it would be with "$setOnInsert" for "$set": a stored
\* document is left as it is.
apply_set_on_insert(doc, update_data) == doc

\* {"$set": update_data} applied to a document.
apply_set(doc, update_data) ==
    [k \in DOMAIN doc |->
        IF k \in DOMAIN update_data THEN update_data[k] ELSE doc[k]]

\* The position of the first document of user "default_user", 0 when none.
first_settings(coll) ==
    LET hits == {i \in 1..Len(coll) : coll[i].user_id = "default_user"}
    IN  IF hits = {} THEN 0 ELSE CHOOSE i \in hits : \A j \in hits : i <= j

\* The update as it would be with replace_one: the stored document becomes
\* the defaults overlaid with update_data.
replace_one_settings(coll, update_data) ==
    LET i == first_settings(coll)
    IN  IF i = 0
        THEN [coll |-> coll, matched_count |-> 0]
        ELSE [coll |-> [coll EXCEPT ![i] =
                           [k \in DOMAIN coll[i] |->
                               IF k \in DOMAIN update_data THEN update_data[k]
                               ELSE IF k \in SettingsFields
                               THEN UserSettingsDefaults[k]
                               ELSE coll[i][k]]],
              matched_count |-> 1]

\* update_one({"user_id": "default_user"}, {"$set": update_data})
update_one_settings(coll, update_data) ==
    LET i == first_settings(coll)
    IN  IF i = 0
        THEN [coll |-> coll, matched_count |-> 0]
        ELSE [coll |-> [coll EXCEPT ![i] = apply_set(coll[i], update_data)],
              matched_count |-> 1]

\* The five mutable fields of a settings record.
fields_of(settings) == [f \in SettingsFields |-> settings[f]]

\* Request bodies PUT /settings is called with.
NoChange ==
    [sitting_reminder_minutes |-> <<>>, activity_break_minutes |-> <<>>,
     notifications_enabled |-> <<>>, sound_alerts_enabled |-> <<>>,
     daily_goal_sessions |-> <<>>]

UpdateInputs ==
    {NoChange,
     [NoChange EXCEPT !.sitting_reminder_minutes = <<60>>,
                      !.activity_break_minutes = <<20>>],
     [NoChange EXCEPT !.sitting_reminder_minutes = <<0>>,
                      !.notifications_enabled = <<FALSE>>,
                      !.sound_alerts_enabled = <<FALSE>>,
                      !.daily_goal_sessions = <<5>>]}

(***************************************************************************)
(* State.                                                                  *)
(***************************************************************************)
NoFrame == [handler |-> "none"]
NoResp == [op |-> "none", status |-> 0, req |-> <<>>, body |-> <<>>]
NoLast == [valid |-> FALSE]

\* A request that starts and ends in one step overlaps every running one.
Overlapped == [v \in Slots |-> FALSE]
\* A request of slot w starts: it runs alone when all other slots are idle.
Started(w) ==
    [v \in Slots |-> v = w /\ \A u \in Slots \ {w} : pc[u] = "idle"]

\* A store that already holds n sessions of day 0, created at instant 0.
preloaded(n) ==
    [i \in 1..n |->
        [id |-> i, user_id |-> "default_user", session_date |-> isoformat(0),
         sitting_duration |-> 50, activity_duration |-> 10,
         completed |-> FALSE, timestamp |-> BsonDate(0)]]

InitWith(n) ==
    /\ health_sessions = preloaded(n)
    /\ user_settings = <<>>
    /\ clock = 0
    /\ today = 0
    /\ uuid = n + 1
    /\ pc = [w \in Slots |-> "idle"]
    /\ frame = [w \in Slots |-> NoFrame]
    /\ resp = NoResp
    /\ solo = Overlapped
    /\ last = NoLast

Init == InitWith(0)

(***************************************************************************)
(* Session handlers.                                                       *)
(***************************************************************************)
\* POST /sessions
create_session(session) ==
    LET session_dict ==
            [sitting_duration |-> session.sitting_duration,
             activity_duration |-> session.activity_duration,
             completed |-> session.completed,
             session_date |-> today]
        session_obj == HealthSession(session_dict, uuid, clock)
        session_data ==
            [session_obj EXCEPT !.session_date = isoformat(@),
                                !.timestamp = BsonDate(@)]
    IN  /\ health_sessions' = Append(health_sessions, session_data)
        /\ uuid' = uuid + 1
        /\ resp' = [op |-> "create_session", status |-> 200,
                    req |-> session, body |-> session_obj]
        /\ solo' = Overlapped
        /\ UNCHANGED <<user_settings, clock, today, pc, frame, last>>

\* GET /sessions/today
get_today_sessions ==
    LET sessions == find_by_session_date(health_sessions, isoformat(today), 100)
    IN  /\ resp' = [op |-> "get_today_sessions", status |-> 200, req |-> <<>>,
                    body |-> [i \in 1..Len(sessions) |->
                                 HealthSessionFromDoc(sessions[i])]]
        /\ solo' = Overlapped
        /\ UNCHANGED <<health_sessions, user_settings, clock, today, uuid, pc,
                       frame, last>>

\* The summary get_daily_progress computes from the store.
daily_progress(coll, day) ==
    LET sessions == find_by_session_date(coll, isoformat(day), 100)
    IN  [date |-> day,
         total_sessions |-> Len(sessions),
         completed_sessions |-> Len(SelectSeq(sessions, LAMBDA s : s.completed)),
         total_sitting_time |->
             SumField(sessions, "sitting_duration", 1, Len(sessions)),
         total_activity_time |->
             SumField(sessions, "activity_duration", 1, Len(sessions)),
         sessions |-> [i \in 1..Len(sessions) |->
                          HealthSessionFromDoc(sessions[i])]]

\* GET /sessions/progress
get_daily_progress ==
    /\ resp' = [op |-> "get_daily_progress", status |-> 200, req |-> <<>>,
                body |-> daily_progress(health_sessions, today)]
    /\ solo' = Overlapped
    /\ UNCHANGED <<health_sessions, user_settings, clock, today, uuid, pc,
                   frame, last>>

\* The summary get_weekly_progress computes from the store.
weekly_progress(coll, day) ==
    LET week_ago == day - 7
        sessions == find_by_date_range(coll, isoformat(week_ago),
                                       isoformat(day), 1000)
    IN  [week_start |-> week_ago,
         week_end |-> day,
         daily_progress |-> group_sessions(<<>>, sessions, 1, Len(sessions))]

\* GET /sessions/weekly
get_weekly_progress ==
    /\ resp' = [op |-> "get_weekly_progress", status |-> 200, req |-> <<>>,
                body |-> weekly_progress(health_sessions, today)]
    /\ solo' = Overlapped
    /\ UNCHANGED <<health_sessions, user_settings, clock, today, uuid, pc,
                   frame, last>>

\* POST /sessions/{session_id}/complete, up to the await of update_one.
complete_session(w, session_id) ==
    LET result == update_one_by_id(health_sessions, session_id, clock)
    IN  /\ pc[w] = "idle"
        /\ health_sessions' = result.coll
        /\ IF result.modified_count = 0
           THEN /\ resp' = [op |-> "complete_session", status |-> 404,
                            req |-> session_id, body |-> "Session not found"]
                /\ solo' = Overlapped
                /\ UNCHANGED <<pc, frame>>
           ELSE /\ pc' = [pc EXCEPT ![w] = "complete_find_one"]
                /\ frame' = [frame EXCEPT ![w] =
                                [handler |-> "complete_session",
                                 session_id |-> session_id]]
                /\ solo' = Started(w)
                /\ UNCHANGED resp
        /\ UNCHANGED <<user_settings, clock, today, uuid, last>>

\* complete_session, from the await of find_one to the return.
complete_session_find_one(w) ==
    LET i == first_by_id(health_sessions, frame[w].session_id)
    IN  /\ pc[w] = "complete_find_one"
        /\ resp' = IF i = 0
                   THEN [op |-> "complete_session", status |-> 500,
                         req |-> frame[w].session_id, body |-> "TypeError"]
                   ELSE [op |-> "complete_session", status |-> 200,
                         req |-> frame[w].session_id,
                         body |-> HealthSessionFromDoc(health_sessions[i])]
        /\ pc' = [pc EXCEPT ![w] = "idle"]
        /\ frame' = [frame EXCEPT ![w] = NoFrame]
        /\ solo' = [solo EXCEPT ![w] = FALSE]
        /\ UNCHANGED <<health_sessions, user_settings, clock, today, uuid, last>>

(***************************************************************************)
(* Settings handlers.                                                      *)
(***************************************************************************)
\* GET /settings, up to the await of insert_one (or to the return, when a
\* record was found).
get_user_settings(w) ==
    LET i == first_settings(user_settings)
    IN  /\ pc[w] = "idle"
        /\ IF i # 0
           THEN /\ resp' = [op |-> "get_user_settings", status |-> 200,
                            req |-> <<>>,
                            body |-> UserSettingsFromDoc(user_settings[i])]
                /\ solo' = Overlapped
                /\ UNCHANGED <<pc, frame, uuid>>
           ELSE /\ pc' = [pc EXCEPT ![w] = "get_insert_one"]
                /\ frame' = [frame EXCEPT ![w] =
                                [handler |-> "get_user_settings",
                                 default_settings |->
                                     UserSettings(<<>>, uuid, clock)]]
                /\ uuid' = uuid + 1
                /\ solo' = Started(w)
                /\ UNCHANGED resp
        /\ UNCHANGED <<health_sessions, user_settings, clock, today, last>>

\* get_user_settings, from the await of insert_one to the return.
get_user_settings_insert_one(w) ==
    /\ pc[w] = "get_insert_one"
    /\ user_settings' =
           Append(user_settings, settings_document(frame[w].default_settings))
    /\ resp' = [op |-> "get_user_settings", status |-> 200, req |-> <<>>,
                body |-> frame[w].default_settings]
    /\ last' = [valid |-> TRUE, by |-> "get_user_settings", alone |-> solo[w],
                returned |-> frame[w].default_settings]
    /\ pc' = [pc EXCEPT ![w] = "idle"]
    /\ frame' = [frame EXCEPT ![w] = NoFrame]
    /\ solo' = [solo EXCEPT ![w] = FALSE]
    /\ UNCHANGED <<health_sessions, clock, today, uuid>>

\* PUT /settings, up to the await of insert_one or of find_one.
update_user_settings(w, settings_update) ==
    LET update_data == make_update_data(settings_update, clock)
        result == update_one_settings(user_settings, update_data)
        i == first_settings(user_settings)
        before == IF i = 0 THEN UserSettingsDefaults
                  ELSE fields_of(user_settings[i])
    IN  /\ pc[w] = "idle"
        /\ user_settings' = result.coll
        /\ IF result.matched_count = 0
           THEN /\ pc' = [pc EXCEPT ![w] = "update_insert_one"]
                /\ frame' = [frame EXCEPT ![w] =
                                [handler |-> "update_user_settings",
                                 settings_update |-> settings_update,
                                 before |-> before,
                                 new_settings |->
                                     UserSettings(update_data, uuid, clock)]]
                /\ uuid' = uuid + 1
           ELSE /\ pc' = [pc EXCEPT ![w] = "update_find_one"]
                /\ frame' = [frame EXCEPT ![w] =
                                [handler |-> "update_user_settings",
                                 settings_update |-> settings_update,
                                 before |-> before]]
                /\ UNCHANGED uuid
        /\ solo' = Started(w)
        /\ last' = NoLast
        /\ UNCHANGED <<health_sessions, clock, today, resp>>

\* update_user_settings, from the await of insert_one to the return.
update_user_settings_insert_one(w) ==
    /\ pc[w] = "update_insert_one"
    /\ user_settings' =
           Append(user_settings, settings_document(frame[w].new_settings))
    /\ resp' = [op |-> "update_user_settings", status |-> 200,
                req |-> frame[w].settings_update,
                body |-> frame[w].new_settings]
    /\ last' = [valid |-> TRUE, by |-> "update_user_settings",
                alone |-> solo[w],
                settings_update |-> frame[w].settings_update,
                before |-> frame[w].before]
    /\ pc' = [pc EXCEPT ![w] = "idle"]
    /\ frame' = [frame EXCEPT ![w] = NoFrame]
    /\ solo' = [solo EXCEPT ![w] = FALSE]
    /\ UNCHANGED <<health_sessions, clock, today, uuid>>

\* update_user_settings, from the await of find_one to the return.
update_user_settings_find_one(w) ==
    LET i == first_settings(user_settings)
        returned == UserSettingsFromDoc(user_settings[i])
    IN  /\ pc[w] = "update_find_one"
        /\ i # 0
        /\ resp' = [op |-> "update_user_settings", status |-> 200,
                    req |-> frame[w].settings_update, body |-> returned]
        /\ last' = [valid |-> TRUE, by |-> "update_user_settings",
                    alone |-> solo[w],
                    settings_update |-> frame[w].settings_update,
                    before |-> frame[w].before]
        /\ pc' = [pc EXCEPT ![w] = "idle"]
        /\ frame' = [frame EXCEPT ![w] = NoFrame]
        /\ solo' = [solo EXCEPT ![w] = FALSE]
        /\ UNCHANGED <<health_sessions, user_settings, clock, today, uuid>>

(***************************************************************************)
(* The environment: time passes.                                           *)
(***************************************************************************)
Tick ==
    /\ clock < MaxClock
    /\ clock' = clock + 1
    /\ UNCHANGED <<health_sessions, user_settings, today, uuid, pc, frame,
                   resp, solo, last>>

Midnight ==
    /\ \E d \in Days : d > today /\ today' = d
    /\ UNCHANGED <<health_sessions, user_settings, clock, uuid, pc, frame,
                   resp, solo, last>>

(***************************************************************************)
(* Specifications.                                                         *)
(***************************************************************************)
\* The ids POST /sessions/{id}/complete is called with: an unknown one, and
\* those of the first and of the last two stored sessions.
CompleteInputs ==
    {0} \cup {health_sessions[i].id :
                 i \in {1, Len(health_sessions) - 1, Len(health_sessions)}
                       \cap (1..Len(health_sessions))}

\* The id of the session created last.
NewestInput ==
    {health_sessions[i].id :
        i \in {Len(health_sessions)} \cap (1..Len(health_sessions))}

\* POST /sessions/{id}/complete, both steps, by the request slots given.
CompleteRequests(slots, ids) ==
    \/ \E w \in slots : \E session_id \in ids :
          complete_session(w, session_id)
    \/ \E w \in slots : complete_session_find_one(w)

\* The session requests: complete by the request slots given, bodies of
\* POST /sessions drawn from inputs, the store capped at cap sessions.
SessionRequests(slots, cap, inputs) ==
    \/ \E session \in inputs :
          Len(health_sessions) < cap /\ create_session(session)
    \/ get_today_sessions
    \/ get_daily_progress
    \/ get_weekly_progress
    \/ CompleteRequests(slots, CompleteInputs)

\* The settings requests by the request slots given: bodies of PUT /settings
\* drawn from inputs.
SettingsRequests(slots, inputs) ==
    \/ \E w \in slots : get_user_settings(w)
    \/ \E w \in slots : get_user_settings_insert_one(w)
    \/ \E w \in slots : \E settings_update \in inputs :
          update_user_settings(w, settings_update)
    \/ \E w \in slots : update_user_settings_insert_one(w)
    \/ \E w \in slots : update_user_settings_find_one(w)

\* Session requests alone, as time passes.
NextSessions ==
    SessionRequests(Slots, MaxSessions, CreateInputs) \/ Tick \/ Midnight

SpecSessions == Init /\ [][NextSessions]_vars

\* Settings requests alone, as time passes.
NextSettings == SettingsRequests(Slots, UpdateInputs) \/ Tick

SpecSettings == Init /\ [][NextSettings]_vars

\* Bodies of POST /sessions on a store that starts large.
FewCreateInputs ==
    {[sitting_duration |-> 50, activity_duration |-> 10, completed |-> FALSE],
     [sitting_duration |-> 0, activity_duration |-> 10, completed |-> TRUE]}

\* The daily summary, on a store that starts with DailyPreload sessions.
NextDaily ==
    \/ \E session \in FewCreateInputs :
          /\ Len(health_sessions) < DailyPreload + MaxSessions
          /\ create_session(session)
    \/ get_daily_progress
    \/ CompleteRequests({"r1"}, CompleteInputs)
    \/ Midnight

SpecDaily == InitWith(DailyPreload) /\ [][NextDaily]_vars

\* The weekly summary, on a store that starts with WeeklyPreload sessions.
NextWeekly ==
    \/ \E session \in FewCreateInputs :
          /\ Len(health_sessions) < WeeklyPreload + MaxSessions
          /\ create_session(session)
    \/ get_weekly_progress
    \/ CompleteRequests({"r1"}, NewestInput)
    \/ Midnight

SpecWeekly == InitWith(WeeklyPreload) /\ [][NextWeekly]_vars

\* All requests together, within one day: a session request and a settings
\* request in flight at a time, on one request body each.
Next ==
    \/ SessionRequests({"r1"}, MaxSessions,
                       {s \in CreateInputs : s.sitting_duration = 50})
    \/ SettingsRequests({"r2"}, {u \in UpdateInputs :
                                    u.sitting_reminder_minutes = <<60>>})
    \/ Tick

Spec == Init /\ [][Next]_vars

\* All requests together on a store that starts with one session, as the
\* day changes.
NextFrame ==
    \/ SessionRequests({"r1"}, MaxSessions + 1,
                       {s \in CreateInputs :
                           s.sitting_duration = 0 /\ ~s.completed})
    \/ SettingsRequests({"r2"}, {u \in UpdateInputs :
                                    u.sitting_reminder_minutes = <<60>>})
    \/ Midnight

SpecFrame == InitWith(1) /\ [][NextFrame]_vars

(***************************************************************************)
(* Claims.                                                                 *)
(***************************************************************************)
SettingsRecords ==
    {i \in 1..Len(user_settings) : user_settings[i].user_id = "default_user"}

\* C1: in every reachable state, whatever the interleaving of the store calls
\* of concurrent get-settings and update-settings requests, user_settings
\* holds at most one record of user "default_user".
AtMostOneSettingsRecord == Cardinality(SettingsRecords) <= 1

\* C2: complete(id) on an id a session is stored under never answers
\* NotFound: its update sets completed and the timestamp of that session to
\* the current instant, also when the session is completed already, and the
\* request then returns that session, completed.
CompleteExistingSucceeds ==
    [][\A w \in Slots :
          /\ \A session_id \in CompleteInputs :
                LET i == first_by_id(health_sessions, session_id)
                IN  (complete_session(w, session_id) /\ i # 0) =>
                        /\ pc'[w] = "complete_find_one"
                        /\ health_sessions'[i].completed
                        /\ health_sessions'[i].timestamp = IsoString(clock)
          /\ complete_session_find_one(w) =>
                /\ resp'.status = 200
                /\ resp'.body.id = frame[w].session_id
                /\ resp'.body.completed]_vars

\* C3: complete(id) on an id no session is stored under answers 404 and
\* leaves the sessions collection exactly as it was.
CompleteUnknownIsNotFound ==
    [][\A w \in Slots : \A session_id \in CompleteInputs :
          (complete_session(w, session_id)
             /\ first_by_id(health_sessions, session_id) = 0) =>
                /\ resp'.op = "complete_session"
                /\ resp'.status = 404
                /\ resp'.req = session_id
                /\ pc'[w] = "idle"
                /\ health_sessions' = health_sessions]_vars

\* C3, its case: a 404 was answered for an id unknown to a non-empty store.
CompleteUnknownSeen ==
    /\ resp.op = "complete_session"
    /\ resp.status = 404
    /\ health_sessions # <<>>
    /\ first_by_id(health_sessions, resp.req) = 0

\* What create leaves in the store for the session it returns.
StoredAs(doc, session) ==
    /\ doc.id = session.id
    /\ doc.user_id = session.user_id
    /\ doc.session_date = isoformat(session.session_date)
    /\ doc.sitting_duration = session.sitting_duration
    /\ doc.activity_duration = session.activity_duration
    /\ doc.completed = session.completed
    /\ doc.timestamp = BsonDate(session.timestamp)

\* What C5 says of every create but for the completed flag.
CreateFrame(session) ==
    /\ resp'.status = 200
    /\ resp'.body.session_date = today
    /\ resp'.body.sitting_duration = session.sitting_duration
    /\ resp'.body.activity_duration = session.activity_duration
    /\ first_by_id(health_sessions, resp'.body.id) = 0
    /\ Len(health_sessions') = Len(health_sessions) + 1
    /\ SubSeq(health_sessions', 1, Len(health_sessions)) = health_sessions
    /\ StoredAs(health_sessions'[Len(health_sessions')], resp'.body)

\* C5 as stated: whatever the completed flag of the request, create returns
\* a session with completed = false, dated today, with the given durations,
\* and inserts exactly that one record.
CreateReturnsNotCompleted ==
    [][\A session \in CreateInputs :
          create_session(session) =>
              CreateFrame(session) /\ resp'.body.completed = FALSE]_vars

\* C5 amended: create returns a session whose completed is the flag of the
\* request, dated today, with the given durations, and inserts exactly that
\* one record.
CreateReturnsGivenFlag ==
    [][\A session \in CreateInputs :
          create_session(session) =>
              CreateFrame(session)
              /\ resp'.body.completed = session.completed]_vars

\* C5, its case: a create with completed = true has been answered and stored.
CreateWithFlagSeen ==
    /\ resp.op = "create_session"
    /\ resp.req.completed
    /\ resp.body.completed
    /\ health_sessions # <<>>
    /\ health_sessions[Len(health_sessions)].id = resp.body.id
    /\ health_sessions[Len(health_sessions)].completed

\* C4: over any step of any request, a stored session that is completed
\* stays stored and completed, and a stored session turns from not completed
\* to completed only in a step of complete on its id.
CompletedIsMonotonic ==
    [][\A i \in 1..Len(health_sessions) :
          LET id == health_sessions[i].id
              after == {j \in 1..Len(health_sessions') :
                           health_sessions'[j].id = id}
          IN  /\ health_sessions[i].completed =>
                    /\ after # {}
                    /\ \A j \in after : health_sessions'[j].completed
              /\ (~health_sessions[i].completed
                    /\ \E j \in after : health_sessions'[j].completed) =>
                    \E w \in Slots : complete_session(w, id)]_vars

\* C4, its case: a session was completed by complete, and a settings update
\* has been answered since.
CompletedThenOtherRequests ==
    /\ resp.op = "update_user_settings"
    /\ \E i \in 1..Len(health_sessions) :
          /\ health_sessions[i].completed
          /\ health_sessions[i].timestamp.kind = "str"

\* The stored sessions dated today, by position.
TodayIdx ==
    {i \in 1..Len(health_sessions) :
        parse_date(health_sessions[i].session_date) = today}

\* The first hundred of them, in store order.
FirstTodayIdx ==
    LET all == TodayIdx
    IN  IF Cardinality(all) <= 100 THEN all
        ELSE {i \in all : Cardinality({j \in all : j <= i}) <= 100}

RECURSIVE WeightedCount(_, _, _)
\* The sum of a field over the stored sessions at the positions idx: each
\* value times the number of sessions holding it.
WeightedCount(values, idx, field) ==
    IF values = {} THEN 0
    ELSE LET v == CHOOSE x \in values : TRUE
         IN  v * Cardinality({i \in idx : health_sessions[i][field] = v})
             + WeightedCount(values \ {v}, idx, field)

FieldTotal(idx, field) ==
    WeightedCount({health_sessions[i][field] : i \in idx}, idx, field)

\* The summary body is the one of the stored sessions at the positions idx.
DailyOver(body, idx) ==
    /\ body.total_sessions = Cardinality(idx)
    /\ body.completed_sessions =
           Cardinality({i \in idx : health_sessions[i].completed})
    /\ body.total_sitting_time = FieldTotal(idx, "sitting_duration")
    /\ body.total_activity_time = FieldTotal(idx, "activity_duration")
    /\ Len(body.sessions) = Cardinality(idx)
    /\ \A i \in idx : \E k \in 1..Len(body.sessions) :
          StoredAs([health_sessions[i] EXCEPT
                       !.timestamp = BsonDate(parse_datetime(@))],
                   body.sessions[k])

\* C6 as stated: dailyProgress returns the count, the completed count, the
\* two duration sums and the list of exactly the stored sessions dated
\* today, however many they are.
DailyCountsAllOfToday ==
    [][(resp'.op = "get_daily_progress" /\ get_daily_progress) =>
          DailyOver(resp'.body, TodayIdx)]_vars

\* C6 amended: dailyProgress returns the count, the completed count, the two
\* duration sums and the list of the first 100 stored sessions dated today
\* (all of them when there are at most 100; all zero and an empty list when
\* there are none).
DailyCountsFirstHundred ==
    [][(resp'.op = "get_daily_progress" /\ get_daily_progress) =>
          /\ DailyOver(resp'.body, FirstTodayIdx)
          /\ Cardinality(TodayIdx) <= 100 => DailyOver(resp'.body, TodayIdx)
          /\ TodayIdx = {} =>
                /\ resp'.body.total_sessions = 0
                /\ resp'.body.completed_sessions = 0
                /\ resp'.body.total_sitting_time = 0
                /\ resp'.body.total_activity_time = 0
                /\ resp'.body.sessions = <<>>]_vars

\* C6, its case: a summary of today was answered from a store with more
\* than 100 sessions dated today.
DailyCapSeen ==
    /\ resp.op = "get_daily_progress"
    /\ resp.body.date = today
    /\ resp.body.total_sessions = 100
    /\ resp.body.completed_sessions > 0
    /\ Cardinality(TodayIdx) > 100

\* The stored sessions dated in the window of the weekly summary.
WindowIdx ==
    {i \in 1..Len(health_sessions) :
        LET d == parse_date(health_sessions[i].session_date)
        IN  today - 7 <= d /\ d <= today}

WindowDates == {health_sessions[i].session_date : i \in WindowIdx}

DatedIdx(date) ==
    {i \in 1..Len(health_sessions) : health_sessions[i].session_date = date}

\* The first thousand of them, in store order.
FirstWindowIdx ==
    LET all == WindowIdx
    IN  IF Cardinality(all) <= 1000 THEN all
        ELSE LET last_one == CHOOSE c \in {i \in all : i >= 1000} :
                                Cardinality({j \in all : j <= c}) = 1000
             IN  {i \in all : i <= last_one}

\* The bucket holds the totals of the stored sessions of its date among
\* those at the positions idx.
BucketExact(bucket, idx) ==
    LET dated == idx \cap DatedIdx(bucket.date)
    IN  /\ bucket.total_sessions = Cardinality(dated)
        /\ bucket.completed_sessions =
               Cardinality({i \in dated : health_sessions[i].completed})
        /\ bucket.total_sitting_time = FieldTotal(dated, "sitting_duration")
        /\ bucket.total_activity_time = FieldTotal(dated, "activity_duration")

\* The buckets are those of the stored sessions at the positions idx: none
\* for a date none of them has, exactly one for every date one of them has,
\* with the totals of those of that date.
BucketsOver(buckets, idx) ==
    LET dates == {health_sessions[i].session_date : i \in idx}
    IN  /\ \A k \in 1..Len(buckets) : buckets[k].date \in dates
        /\ \A k \in 1..Len(buckets) : \A m \in 1..Len(buckets) :
              buckets[k].date = buckets[m].date => k = m
        /\ \A date \in dates : \E k \in 1..Len(buckets) :
              buckets[k].date = date /\ BucketExact(buckets[k], idx)

\* C7 as stated: weeklyProgress returns no bucket for a date without stored
\* sessions in the window and, for every date of the window with a stored
\* session, exactly one bucket with the totals of all stored sessions of
\* that date.
WeeklyBucketsExact ==
    [][(resp'.op = "get_weekly_progress" /\ get_weekly_progress) =>
          BucketsOver(resp'.body.daily_progress, WindowIdx)]_vars

\* C7 amended: the same over the first 1000 stored sessions dated in the
\* window (all of them when there are at most 1000).
WeeklyBucketsExactToCap ==
    [][(resp'.op = "get_weekly_progress" /\ get_weekly_progress) =>
          /\ BucketsOver(resp'.body.daily_progress, FirstWindowIdx)
          /\ Cardinality(WindowIdx) <= 1000 =>
                BucketsOver(resp'.body.daily_progress, WindowIdx)
          /\ (\E i \in FirstWindowIdx :
                 parse_date(health_sessions[i].session_date) = today) =>
                \E k \in 1..Len(resp'.body.daily_progress) :
                    resp'.body.daily_progress[k].date = isoformat(today)]_vars

\* C7, its case: a weekly summary of day 8 whose one bucket is that of the
\* session created on day 1, the first day of the window, answered from a
\* store that also holds the sessions of day 0, dated before the window.
WeeklySparseSeen ==
    /\ resp.op = "get_weekly_progress"
    /\ resp.body.week_end = today
    /\ today = 8
    /\ Len(health_sessions) > 1000
    /\ Cardinality(WindowIdx) = 1
    /\ Len(resp.body.daily_progress) = 1
    /\ resp.body.daily_progress[1].date = isoformat(1)
    /\ resp.body.daily_progress[1].total_sessions = 1

\* The record a settings request returned is stored, as a document.
Persisted(settings, coll) ==
    \E i \in 1..Len(coll) : coll[i] = [settings EXCEPT !.timestamp = IsoString(@)]

\* C8: a get() that found no settings record returns the five defaults and
\* persists the record it returns; a later get(), no update having started
\* in between, returns that same record (same id, same field values) and
\* inserts nothing.
GetCreatesDefaultsOnce ==
    [][\A w \in Slots :
          /\ get_user_settings_insert_one(w) =>
                /\ resp'.status = 200
                /\ resp'.body.sitting_reminder_minutes = 50
                /\ resp'.body.activity_break_minutes = 10
                /\ resp'.body.notifications_enabled = TRUE
                /\ resp'.body.sound_alerts_enabled = TRUE
                /\ resp'.body.daily_goal_sessions = 8
                /\ Persisted(resp'.body, user_settings')
          /\ (/\ last.valid
              /\ last.by = "get_user_settings"
              /\ get_user_settings(w)) =>
                /\ resp'.op = "get_user_settings"
                /\ resp'.body.id = last.returned.id
                /\ fields_of(resp'.body) = fields_of(last.returned)
                /\ user_settings' = user_settings]_vars

\* The record holds the patch's value in every field of the patch and the
\* value of before in every other field.
Merged(settings, before, settings_update) ==
    \A f \in SettingsFields :
        settings[f] = IF settings_update[f] # <<>>
                      THEN settings_update[f][1]
                      ELSE before[f]

\* C9: an update(P) that overlapped no other request returns a record with
\* P's value in every field of P (0 and false included) and, in every other
\* field, the value stored before the update (the default when nothing was
\* stored); a get() after it, no other update having started, returns the
\* same field values.
UpdateThenGetMerges ==
    [][\A w \in Slots :
          /\ (/\ solo[w]
              /\ \/ update_user_settings_insert_one(w)
                 \/ update_user_settings_find_one(w)) =>
                /\ resp'.status = 200
                /\ Merged(resp'.body, frame[w].before, frame[w].settings_update)
          /\ (/\ last.valid
              /\ last.by = "update_user_settings"
              /\ last.alone
              /\ get_user_settings(w)) =>
                /\ resp'.op = "get_user_settings"
                /\ resp'.status = 200
                /\ Merged(resp'.body, last.before, last.settings_update)]_vars

\* C9, its case: a get() answered after an update that ran alone, set
\* sitting_reminder_minutes to 0 and notifications_enabled to false, and
\* left the activity_break_minutes = 20 of an earlier update.
UpdateThenGetSeen ==
    /\ resp.op = "get_user_settings"
    /\ last.valid
    /\ last.by = "update_user_settings"
    /\ last.alone
    /\ last.settings_update.sitting_reminder_minutes = <<0>>
    /\ last.settings_update.activity_break_minutes = <<>>
    /\ last.before.activity_break_minutes = 20
    /\ resp.body.sitting_reminder_minutes = 0
    /\ resp.body.notifications_enabled = FALSE
    /\ resp.body.activity_break_minutes = 20

\* C10: every update writes the instant it read: the record it updates (or,
\* with none stored, the record it inserts) gets that timestamp; the update
\* of a stored record keeps its id and leaves every other record alone, and
\* with an empty patch it keeps the five field values too; the request is
\* answered 200.
UpdateRefreshesTimestamp ==
    [][\A w \in Slots :
          /\ \A settings_update \in UpdateInputs :
                update_user_settings(w, settings_update) =>
                    LET i == first_settings(user_settings)
                    IN  IF i = 0
                        THEN /\ user_settings' = user_settings
                             /\ frame'[w].new_settings.timestamp = clock
                        ELSE /\ Len(user_settings') = Len(user_settings)
                             /\ user_settings'[i].timestamp = IsoString(clock)
                             /\ user_settings'[i].id = user_settings[i].id
                             /\ \A j \in 1..Len(user_settings) :
                                   j # i => user_settings'[j] = user_settings[j]
                             /\ settings_update = NoChange =>
                                   fields_of(user_settings'[i])
                                       = fields_of(user_settings[i])
          /\ update_user_settings_insert_one(w) =>
                /\ resp'.status = 200
                /\ resp'.body.timestamp = frame[w].new_settings.timestamp
                /\ Persisted(resp'.body, user_settings')
                /\ frame[w].settings_update = NoChange =>
                       fields_of(resp'.body) = UserSettingsDefaults
          /\ update_user_settings_find_one(w) => resp'.status = 200]_vars

\* C10, its case: an update with an empty patch was answered at a later
\* instant than the record's previous write, and the record still holds
\* the values of an earlier update.
EmptyUpdateSeen ==
    /\ resp.op = "update_user_settings"
    /\ resp.req = NoChange
    /\ resp.status = 200
    /\ clock > 0
    /\ resp.body.timestamp = clock
    /\ resp.body.sitting_reminder_minutes = 60
    /\ user_settings # <<>>
    /\ user_settings[1].timestamp = IsoString(clock)

\* The number of sessions the buckets count for a date; -1 when two buckets
\* share the date.
CountedOn(buckets, date) ==
    LET ks == {k \in 1..Len(buckets) : buckets[k].date = date}
    IN  IF ks = {} THEN 0
        ELSE IF Cardinality(ks) > 1 THEN -1
        ELSE buckets[CHOOSE k \in ks : TRUE].total_sessions

\* The summary is that of the week ending today, and it counts, date by date,
\* exactly the stored sessions at the positions idx.
WeekCounts(body, idx) ==
    /\ body.week_start = today - 7
    /\ body.week_end = today
    /\ \A k \in 1..Len(body.daily_progress) :
          \E i \in 1..Len(health_sessions) :
              health_sessions[i].session_date = body.daily_progress[k].date
    /\ \A date \in {health_sessions[i].session_date :
                       i \in 1..Len(health_sessions)} :
          CountedOn(body.daily_progress, date)
              = Cardinality(idx \cap DatedIdx(date))

\* C11 as stated: weeklyProgress counts a stored session if and only if it is
\* dated from today - 7 to today, both included; week_start is today - 7 and
\* week_end is today.
WeeklyCountsWindow ==
    [][(resp'.op = "get_weekly_progress" /\ get_weekly_progress) =>
          WeekCounts(resp'.body, WindowIdx)]_vars

\* C11 amended: weeklyProgress counts a stored session if and only if it is
\* dated from today - 7 to today, both included, and is among the first 1000
\* such sessions in store order; week_start is today - 7 and week_end is
\* today.
WeeklyCountsWindowToCap ==
    [][(resp'.op = "get_weekly_progress" /\ get_weekly_progress) =>
          /\ WeekCounts(resp'.body, FirstWindowIdx)
          /\ Cardinality(WindowIdx) <= 1000 =>
                WeekCounts(resp'.body, WindowIdx)]_vars

\* C11, its case: the summary of day 8 starts on day 1, counts the session
\* dated day 8 and counts none of the stored sessions dated day 0.
WindowEdgesSeen ==
    /\ resp.op = "get_weekly_progress"
    /\ today = 8
    /\ resp.body.week_start = 1
    /\ resp.body.week_end = 8
    /\ DatedIdx(isoformat(0)) # {}
    /\ DatedIdx(isoformat(8)) # {}
    /\ CountedOn(resp.body.daily_progress, isoformat(0)) = 0
    /\ CountedOn(resp.body.daily_progress, isoformat(8)) = 1

\* The fields of a session document that complete leaves alone.
KeptByComplete(doc) ==
    [id |-> doc.id, user_id |-> doc.user_id, session_date |-> doc.session_date,
     sitting_duration |-> doc.sitting_duration,
     activity_duration |-> doc.activity_duration]

\* C12: a complete(id) that succeeds changes nothing but completed and
\* timestamp of the session stored under id: its other fields, every other
\* session, the number of sessions and the settings collection stay as they
\* were; and no step of any request removes a stored session or changes its
\* id or its session_date.
CompleteChangesOnlyItsSession ==
    [][/\ \A w \in Slots : \A session_id \in CompleteInputs :
             (complete_session(w, session_id)
                /\ pc'[w] = "complete_find_one") =>
                 LET i == first_by_id(health_sessions, session_id)
                 IN  /\ i # 0
                     /\ Len(health_sessions') = Len(health_sessions)
                     /\ KeptByComplete(health_sessions'[i])
                            = KeptByComplete(health_sessions[i])
                     /\ \A j \in 1..Len(health_sessions) :
                           j # i => health_sessions'[j] = health_sessions[j]
                     /\ user_settings' = user_settings
       /\ \A w \in Slots :
             complete_session_find_one(w) =>
                 /\ health_sessions' = health_sessions
                 /\ user_settings' = user_settings
       /\ Len(health_sessions') >= Len(health_sessions)
       /\ \A j \in 1..Len(health_sessions) :
             /\ health_sessions'[j].id = health_sessions[j].id
             /\ health_sessions'[j].session_date
                    = health_sessions[j].session_date]_vars

\* C12, its case: a complete was answered 200 for the second of two stored
\* sessions on a later day than it was created, the first one is as it was
\* created, and a settings record is stored.
CompleteFrameSeen ==
    /\ resp.op = "complete_session"
    /\ resp.status = 200
    /\ Len(health_sessions) = 2
    /\ resp.req = health_sessions[2].id
    /\ health_sessions[2].completed
    /\ health_sessions[2].timestamp = IsoString(clock)
    /\ parse_date(health_sessions[2].session_date) < today
    /\ health_sessions[1] = preloaded(1)[1]
    /\ user_settings # <<>>

\* C13: with a settings record stored, when an update writes while another
\* update, whose write the record still shows, has not returned yet, the
\* record holds, field by field, the value of the later write in every field
\* of the later patch, the value of the earlier write in every field of the
\* earlier patch only, and what it held before in every other field; the
\* reads that end the two requests change nothing.
ConcurrentUpdatesMergePerField ==
    [][/\ \A w \in Slots : \A v \in Slots \ {w} :
          \A settings_update \in UpdateInputs :
             LET i == first_settings(user_settings)
             IN  (/\ pc[v] = "update_find_one"
                  /\ i # 0
                  /\ Merged(user_settings[i], frame[v].before,
                            frame[v].settings_update)
                  /\ update_user_settings(w, settings_update)) =>
                     /\ pc'[w] = "update_find_one"
                     /\ first_settings(user_settings') = i
                     /\ \A f \in SettingsFields :
                           user_settings'[i][f] =
                               IF settings_update[f] # <<>>
                               THEN settings_update[f][1]
                               ELSE IF frame[v].settings_update[f] # <<>>
                               THEN frame[v].settings_update[f][1]
                               ELSE frame[v].before[f]
       /\ \A w \in Slots :
             update_user_settings_find_one(w) =>
                 user_settings' = user_settings]_vars

\* C13, its case: two updates have both written and neither has returned;
\* the one that wrote last set sitting_reminder_minutes to 0, the other one
\* had set it to 60 and activity_break_minutes to 20.
ConcurrentUpdatesSeen ==
    /\ \A w \in Slots : pc[w] = "update_find_one"
    /\ \E w \in Slots : \E v \in Slots \ {w} :
          /\ frame[w].settings_update.sitting_reminder_minutes = <<0>>
          /\ frame[v].settings_update.sitting_reminder_minutes = <<60>>
          /\ frame[v].settings_update.activity_break_minutes = <<20>>
    /\ user_settings[1].sitting_reminder_minutes = 0
    /\ user_settings[1].activity_break_minutes = 20
    /\ user_settings[1].notifications_enabled = FALSE

\* C14 as stated, its premise: an update first reads the stored record (and
\* merges and writes the whole result afterwards), so that the first store
\* call of an update on a stored record writes nothing.
UpdateReadsBeforeItWrites ==
    [][\A w \in Slots : \A settings_update \in UpdateInputs :
          (update_user_settings(w, settings_update)
             /\ first_settings(user_settings) # 0) =>
                user_settings' = user_settings]_vars

\* C14 amended: an update on a stored record is one store write, of the
\* fields of its patch and the timestamp onto the record as it is stored at
\* that moment, followed by a read: every field outside the patch keeps the
\* value it had, whoever wrote it, every other record is left alone, and the
\* read writes nothing.  No write of one update undoes a field another
\* update set.
NoUpdateIsLost ==
    [][/\ \A w \in Slots : \A settings_update \in UpdateInputs :
             LET i == first_settings(user_settings)
             IN  (update_user_settings(w, settings_update) /\ i # 0) =>
                     /\ pc'[w] = "update_find_one"
                     /\ Len(user_settings') = Len(user_settings)
                     /\ \A f \in SettingsFields :
                           settings_update[f] = <<>> =>
                               user_settings'[i][f] = user_settings[i][f]
                     /\ \A j \in 1..Len(user_settings) :
                           j # i => user_settings'[j] = user_settings[j]
       /\ \A w \in Slots :
             (update_user_settings_find_one(w) /\ Len(user_settings) = 1) =>
                 /\ user_settings' = user_settings
                 /\ fields_of(resp'.body) = fields_of(user_settings[1])]_vars

\* C14, its case: of two updates in flight together on the one stored
\* record, the one that set activity_break_minutes to 20 has returned and
\* the one that set notifications_enabled to false has written; the record
\* holds both values.
BothUpdatesKept ==
    /\ Len(user_settings) = 1
    /\ resp.op = "update_user_settings"
    /\ last.valid
    /\ last.by = "update_user_settings"
    /\ ~last.alone
    /\ last.settings_update.activity_break_minutes = <<20>>
    /\ \E v \in Slots :
          /\ pc[v] = "update_find_one"
          /\ frame[v].settings_update.notifications_enabled = <<FALSE>>
          /\ frame[v].settings_update.activity_break_minutes = <<>>
    /\ user_settings[1].activity_break_minutes = 20
    /\ user_settings[1].notifications_enabled = FALSE

\* C15: once an update(P) has returned successfully, every get() that starts
\* afterwards, no other update having started in between, returns P's value
\* in every field of P, whatever ran concurrently with the update.
GetSeesReturnedUpdate ==
    [][\A w \in Slots :
          (/\ last.valid
           /\ last.by = "update_user_settings"
           /\ get_user_settings(w)) =>
                /\ pc'[w] = "idle"
                /\ resp'.op = "get_user_settings"
                /\ resp'.status = 200
                /\ \A f \in SettingsFields :
                      last.settings_update[f] # <<>> =>
                          resp'.body[f] = last.settings_update[f][1]]_vars

====
